---- MODULE Spec2Model ----
(***************************************************************************)
(* Screen Share Validator: the capture session controller of               *)
(* pages/index.js (ScreenShareValidator) and the boundary watcher of       *)
(* hooks/useMouseTracker.js (useMouseTracker).                             *)
(*                                                                         *)
(* One action models one event handler run to completion together with    *)
(* the React commit that follows it (batched state updates, unmounting of  *)
(* the success screen, effect cleanup of the mouse tracker).  The event    *)
(* loop is single threaded, so handlers never interleave.                  *)
(*                                                                         *)
(* Environment assumption (README, Prerequisites): the browser supports    *)
(* getDisplayMedia, so a failed request arrives as a rejected promise and  *)
(* a request with video:true resolves with a stream that has a video       *)
(* track.                                                                  *)
(***************************************************************************)
EXTENDS Integers, Sequences, FiniteSets, TLC

(***************************************************************************)
(* Bounds of the model.                                                    *)
(***************************************************************************)
MaxAttempts == 3        \* cap of the attempts counter
MaxPending == 2         \* cap of simultaneously outstanding capture requests
MaxStreams == 2         \* stream objects the capture subsystem can hand out
MaxTracks == 2          \* tracks per returned stream
MaxFragments == 3       \* fragments per probed label (label specification)

StreamIds == 1..MaxStreams
TrackIds == 1..MaxTracks
NoStream == 0

VARIABLES
  currentStep,        \* 'instructions' | 'requesting' | 'success' | 'error'
  stream,             \* retained MediaStream (NoStream for null)
  showRetryModal,     \* retry prompt displayed
  errorMessage,       \* recorded user-facing message
  attempts,           \* attempt counter
  monitoringEnabled,  \* user toggle of the multi-monitor detection
  testDetectionFn,    \* value kept by useState(null) / setTestDetectionFn
  videoSrc,           \* srcObject of the mounted preview <video> (NoStream if none)
  pending,            \* number of unresolved getDisplayMedia() promises
  streams,            \* stream objects handed out by the capture subsystem
  currentMousePos,    \* last-known pointer sample
  debounceTimerRef,   \* id kept in debounceTimerRef.current (NoTimer for null)
  lastAlertRef,       \* time of the last fired notification (0: never)
  timers,             \* pending setTimeout callbacks of the watcher
  popup,              \* the alert() on display (NoPopup if none)
  now,                \* Date.now()
  screen,             \* window.screen as reported by the host
  label,              \* videoTrack.label under validation (label specification)
  trackLabel,         \* its lower-cased form
  isValidScreenShare, \* result of validateTrackLabel
  validated           \* the label specification has run the validation

ctlVars == <<currentStep, stream, showRetryModal, errorMessage, attempts,
             monitoringEnabled, testDetectionFn, videoSrc, pending, streams>>
watchVars == <<currentMousePos, debounceTimerRef, lastAlertRef, timers, popup>>
envVars == <<now, screen>>
labelVars == <<label, trackLabel, isValidScreenShare, validated>>
vars == <<ctlVars, watchVars, envVars, labelVars>>

(***************************************************************************)
(* String helpers: String.prototype.toLowerCase and includes.              *)
(***************************************************************************)
LowerChar(c) ==
  CASE c = "A" -> "a" [] c = "B" -> "b" [] c = "C" -> "c" [] c = "D" -> "d"
    [] c = "E" -> "e" [] c = "F" -> "f" [] c = "G" -> "g" [] c = "H" -> "h"
    [] c = "I" -> "i" [] c = "J" -> "j" [] c = "K" -> "k" [] c = "L" -> "l"
    [] c = "M" -> "m" [] c = "N" -> "n" [] c = "O" -> "o" [] c = "P" -> "p"
    [] c = "Q" -> "q" [] c = "R" -> "r" [] c = "S" -> "s" [] c = "T" -> "t"
    [] c = "U" -> "u" [] c = "V" -> "v" [] c = "W" -> "w" [] c = "X" -> "x"
    [] c = "Y" -> "y" [] c = "Z" -> "z" [] OTHER -> c

RECURSIVE toLowerCase(_)
toLowerCase(s) ==
  IF s = "" THEN ""
  ELSE LowerChar(SubSeq(s, 1, 1)) \o toLowerCase(SubSeq(s, 2, Len(s)))

includes(s, p) ==
  \E i \in 1..(Len(s) - Len(p) + 1) : SubSeq(s, i, i + Len(p) - 1) = p

(***************************************************************************)
(* Classification of the track label.                                      *)
(***************************************************************************)
invalidPatterns ==
  <<"tab", "window", "chrome tab", "firefox tab", "safari tab",
    "application window", "browser window">>

validPatterns ==
  <<"screen", "monitor", "desktop", "entire screen", "full screen">>

\* Mutant: the allowed list is consulted before the disallowed list.
validateTrackLabel_ValidFirst(l) ==
  IF \E i \in DOMAIN validPatterns : includes(l, validPatterns[i]) THEN TRUE
  ELSE FALSE

\* Mutant: a label matching no pattern is accepted (fail open).
validateTrackLabel_FailOpen(l) ==
  IF \E i \in DOMAIN invalidPatterns : includes(l, invalidPatterns[i]) THEN FALSE
  ELSE TRUE

validateTrackLabel(l) ==
  IF \E i \in DOMAIN invalidPatterns : includes(l, invalidPatterns[i]) THEN FALSE
  ELSE IF \E i \in DOMAIN validPatterns : includes(l, validPatterns[i]) THEN TRUE
  ELSE FALSE

MsgTab == "You selected a browser tab. Please share your entire screen instead."
MsgWindow == "You selected a window. Please share your entire screen instead."
MsgGeneric == "Please share your entire screen - tab or window sharing is not allowed."
MsgDenied == "Screen sharing permission denied. Please allow access and try again."
MsgUnsupported == "Screen sharing is not supported in this browser."
MsgOther == "An error occurred while requesting screen share. Please try again."

\* Mutant: the window message is chosen before the tab message.
getErrorMessage_WindowFirst(l) ==
  IF includes(l, "window") THEN MsgWindow
  ELSE IF includes(l, "tab") THEN MsgTab
  ELSE MsgGeneric

getErrorMessage(l) ==
  IF includes(l, "tab") THEN MsgTab
  ELSE IF includes(l, "window") THEN MsgWindow
  ELSE MsgGeneric

ErrorNames == {"NotAllowedError", "NotSupportedError", "AbortError"}

\* Mutant: the NotSupportedError branch is missing.
catchMessage_NoUnsupported(name) ==
  IF name = "NotAllowedError" THEN MsgDenied
  ELSE MsgOther

catchMessage(name) ==
  IF name = "NotAllowedError" THEN MsgDenied
  ELSE IF name = "NotSupportedError" THEN MsgUnsupported
  ELSE MsgOther

\* Mutant: the label is validated as delivered, without lower-casing.
TrackLabelOf_NoLower(l) == l

\* const trackLabel = videoTrack.label.toLowerCase()
TrackLabelOf(l) == toLowerCase(l)

(***************************************************************************)
(* Labels the capture subsystem delivers in the controller specification   *)
(* (README, Track Label Patterns by Browser) and the labels probed in the  *)
(* label specification: every concatenation of up to MaxFragments          *)
(* fragments.                                                              *)
(***************************************************************************)
Labels == {"Screen 1", "screen 1", "Chrome Tab", ""}

Fragments ==
  {"tab", "Tab", "window", "screen", "Screen", "monitor", "desktop",
   "ta", "b", "entire ", "full ", "chrome ", "application ", " ", "camera"}

RECURSIVE Concats(_)
Concats(n) ==
  IF n = 0 THEN {""}
  ELSE LET shorter == Concats(n - 1)
       IN  shorter \cup {a \o f : a \in shorter, f \in Fragments}

ProbeLabels == Concats(MaxFragments)

\* Lines 37-42 and 49 of validateScreenShare for each label of Labels: the
\* label is lower-cased, then validated, and on rejection the message is
\* chosen.  Tabulated, so that the functions are evaluated once per label.
isValidScreenShareOf ==
  [l \in Labels |-> validateTrackLabel(TrackLabelOf(l))]

errorMessageOf ==
  [l \in Labels |-> getErrorMessage(TrackLabelOf(l))]

(***************************************************************************)
(* Stream objects.                                                         *)
(***************************************************************************)
\* streams[s] is the stream object with identity s while it is live or
\* referenced; an ended object nobody references is garbage and its slot is
\* NoStreamObject again.
NoStreamObject == [label |-> "", live |-> {}]

NewStreamObject(l) == [label |-> l, live |-> TrackIds]

IsLive(s) == streams[s].live # {}

FreeIds == {s \in StreamIds : ~IsLive(s)}

NewStreamId == CHOOSE s \in FreeIds : \A t \in FreeIds : s <= t

\* Mutant: only the video track is stopped.
StopTracks_VideoOnly(obj) == [obj EXCEPT !.live = @ \ {1}]

\* getTracks().forEach(track => track.stop())
StopTracks(obj) == [obj EXCEPT !.live = {}]

\* The stream object after the handler that held it has returned.
Collect(obj) == IF obj.live = {} THEN NoStreamObject ELSE obj

(***************************************************************************)
(* Boundary watcher (useMouseTracker).                                     *)
(***************************************************************************)
DebounceMs == 300
ThrottleMs == 3000

NoTimer == 0
NoPopup == [shown |-> FALSE]

\* The instants at which the model observes the clock, in milliseconds.  The
\* page is loaded at least ThrottleMs after the epoch, as Date.now() is.  A
\* timer set at one instant is due DebounceMs later and runs at the first
\* observed instant that is not earlier.
Instants == {3000, 3300, 6299, 6300}
StartInstant == CHOOSE i \in Instants : \A j \in Instants : i <= j

Screens == {[availWidth |-> 1, availHeight |-> 1],
            [availWidth |-> 2, availHeight |-> 2]}

Points == {[screenX |-> 0, screenY |-> 0],
           [screenX |-> 2, screenY |-> 1],
           [screenX |-> -1, screenY |-> 3]}

\* useMouseTracker(currentStep === 'success' && monitoringEnabled, ...)
isActive == currentStep = "success" /\ monitoringEnabled

getScreenInfo == screen

\* Mutant: the upper limits are exclusive.
isOutOfBounds_Exclusive(x, y) ==
  \/ x < 0
  \/ x >= getScreenInfo.availWidth
  \/ y < 0
  \/ y >= getScreenInfo.availHeight

isOutOfBounds(x, y) ==
  \/ x < 0
  \/ x > getScreenInfo.availWidth
  \/ y < 0
  \/ y > getScreenInfo.availHeight

\* Mutant: only the first violated bound is reported.
Reason_FirstOnly(x, y, availWidth, availHeight) ==
  IF x < 0 THEN <<"left edge">>
  ELSE IF x > availWidth THEN <<"right edge">>
  ELSE IF y < 0 THEN <<"top edge">>
  ELSE IF y > availHeight THEN <<"bottom edge">>
  ELSE <<>>

Reason(x, y, availWidth, availHeight) ==
  (IF x < 0 THEN <<"left edge">> ELSE <<>>)
  \o (IF x > availWidth THEN <<"right edge">> ELSE <<>>)
  \o (IF y < 0 THEN <<"top edge">> ELSE <<>>)
  \o (IF y > availHeight THEN <<"bottom edge">> ELSE <<>>)

\* Mutant: a fired notification does not record its time.
showMultiMonitorPopup_NoRecord(x, y, availWidth, availHeight) ==
  IF now - lastAlertRef < ThrottleMs
    THEN UNCHANGED <<lastAlertRef, popup>>
    ELSE /\ UNCHANGED lastAlertRef
         /\ popup' = [shown |-> TRUE, screenX |-> x, screenY |-> y,
                      availWidth |-> availWidth, availHeight |-> availHeight,
                      reason |-> Reason(x, y, availWidth, availHeight)]

showMultiMonitorPopup(x, y, availWidth, availHeight) ==
  IF now - lastAlertRef < ThrottleMs
    THEN UNCHANGED <<lastAlertRef, popup>>
    ELSE /\ lastAlertRef' = now
         /\ popup' = [shown |-> TRUE, screenX |-> x, screenY |-> y,
                      availWidth |-> availWidth, availHeight |-> availHeight,
                      reason |-> Reason(x, y, availWidth, availHeight)]

\* clearTimeout(debounceTimerRef.current), guarded by the ref being set
ClearTimer(ts) == {t \in ts : t.id # debounceTimerRef}

NewTimerId(ts) ==
  CHOOSE i \in 1..(Cardinality(ts) + 1) :
    /\ \A t \in ts : t.id # i
    /\ \A j \in 1..(i - 1) : \E t \in ts : t.id = j

\* alert() blocks the event loop until it is dismissed.
EventLoopFree == popup = NoPopup

\* Mutant: the cleanup of the mousemove effect leaves the timer pending.
EffectCleanup_NoClear ==
  timers' = timers

\* Cleanup of the mousemove effect: it runs when handleMouseMove changes,
\* i.e. when isActive changes with the commit of a controller action.
EffectCleanup ==
  timers' = IF isActive' # isActive THEN ClearTimer(timers) ELSE timers

\* What a controller action leaves alone outside the controller state.
Commit ==
  /\ EffectCleanup
  /\ UNCHANGED <<currentMousePos, debounceTimerRef, lastAlertRef, popup>>
  /\ UNCHANGED testDetectionFn
  /\ UNCHANGED envVars
  /\ UNCHANGED labelVars

\* Mutant: an out-of-bounds sample starts a deferred check without clearing
\* the one that is pending.
handleMouseMove_NoClear(x, y) ==
  /\ EventLoopFree
  /\ currentMousePos' = [screenX |-> x, screenY |-> y]
  /\ IF ~isActive
       THEN UNCHANGED <<debounceTimerRef, timers>>
       ELSE IF isOutOfBounds(x, y)
         THEN LET id == NewTimerId(timers)
              IN  /\ timers' = timers \cup
                                 {[id |-> id, screenX |-> x, screenY |-> y,
                                   due |-> now + DebounceMs]}
                  /\ debounceTimerRef' = id
         ELSE /\ timers' = ClearTimer(timers)
              /\ debounceTimerRef' = NoTimer
  /\ UNCHANGED <<lastAlertRef, popup>>
  /\ UNCHANGED <<ctlVars, envVars, labelVars>>

\* Mutant: an out-of-bounds sample leaves a pending deferred check in place.
handleMouseMove_KeepPending(x, y) ==
  /\ EventLoopFree
  /\ currentMousePos' = [screenX |-> x, screenY |-> y]
  /\ IF ~isActive
       THEN UNCHANGED <<debounceTimerRef, timers>>
       ELSE IF isOutOfBounds(x, y)
         THEN IF timers # {}
                THEN UNCHANGED <<debounceTimerRef, timers>>
                ELSE /\ timers' = {[id |-> NewTimerId(timers), screenX |-> x,
                                    screenY |-> y, due |-> now + DebounceMs]}
                     /\ debounceTimerRef' = NewTimerId(timers)
         ELSE /\ timers' = ClearTimer(timers)
              /\ debounceTimerRef' = NoTimer
  /\ UNCHANGED <<lastAlertRef, popup>>
  /\ UNCHANGED <<ctlVars, envVars, labelVars>>

\* Mutant: the listener evaluates the boundary whether or not it is active.
handleMouseMove_AlwaysEvaluates(x, y) ==
  /\ EventLoopFree
  /\ currentMousePos' = [screenX |-> x, screenY |-> y]
  /\ IF isOutOfBounds(x, y)
       THEN LET id == NewTimerId(ClearTimer(timers))
            IN  /\ timers' = ClearTimer(timers) \cup
                               {[id |-> id, screenX |-> x, screenY |-> y,
                                 due |-> now + DebounceMs]}
                /\ debounceTimerRef' = id
       ELSE /\ timers' = ClearTimer(timers)
            /\ debounceTimerRef' = NoTimer
  /\ UNCHANGED <<lastAlertRef, popup>>
  /\ UNCHANGED <<ctlVars, envVars, labelVars>>

\* document 'mousemove' listener
handleMouseMove(x, y) ==
  /\ EventLoopFree
  /\ currentMousePos' = [screenX |-> x, screenY |-> y]
  /\ IF ~isActive
       THEN UNCHANGED <<debounceTimerRef, timers>>
       ELSE IF isOutOfBounds(x, y)
         THEN LET id == NewTimerId(ClearTimer(timers))
              IN  /\ timers' = ClearTimer(timers) \cup
                                 {[id |-> id, screenX |-> x, screenY |-> y,
                                   due |-> now + DebounceMs]}
                  /\ debounceTimerRef' = id
         ELSE /\ timers' = ClearTimer(timers)
              /\ debounceTimerRef' = NoTimer
  /\ UNCHANGED <<lastAlertRef, popup>>
  /\ UNCHANGED <<ctlVars, envVars, labelVars>>

\* The deferred check set by handleMouseMove runs.
TimerFire(t) ==
  /\ EventLoopFree
  /\ t \in timers
  /\ now >= t.due
  /\ timers' = timers \ {t}
  /\ showMultiMonitorPopup(t.screenX, t.screenY,
                           getScreenInfo.availWidth, getScreenInfo.availHeight)
  /\ UNCHANGED <<currentMousePos, debounceTimerRef>>
  /\ UNCHANGED <<ctlVars, envVars, labelVars>>

\* What testDetection(testScreenX, testScreenY) returns.
testDetectionResult(testScreenX, testScreenY) ==
  isOutOfBounds(testScreenX, testScreenY)

\* Mutant: the check of the given coordinates is deferred like a pointer
\* sample's.
testDetection_Debounced(testScreenX, testScreenY) ==
  /\ EventLoopFree
  /\ IF isOutOfBounds(testScreenX, testScreenY)
       THEN LET id == NewTimerId(ClearTimer(timers))
            IN  /\ timers' = ClearTimer(timers) \cup
                               {[id |-> id, screenX |-> testScreenX,
                                 screenY |-> testScreenY,
                                 due |-> now + DebounceMs]}
                /\ debounceTimerRef' = id
       ELSE UNCHANGED <<debounceTimerRef, timers>>
  /\ UNCHANGED <<currentMousePos, lastAlertRef, popup>>
  /\ UNCHANGED <<ctlVars, envVars, labelVars>>

\* testDetection, the function the hook returns to its caller: an immediate
\* check of the given coordinates, whether or not the watcher is active.
testDetection(testScreenX, testScreenY) ==
  /\ EventLoopFree
  /\ IF isOutOfBounds(testScreenX, testScreenY)
       THEN showMultiMonitorPopup(testScreenX, testScreenY,
                                  getScreenInfo.availWidth,
                                  getScreenInfo.availHeight)
       ELSE UNCHANGED <<lastAlertRef, popup>>
  /\ UNCHANGED <<currentMousePos, debounceTimerRef, timers>>
  /\ UNCHANGED <<ctlVars, envVars, labelVars>>

\* Values of the state testDetectionFn: null, a boolean, or the function
\* testDetection of the hook.
Null == "null"
TestDetectionFunction == "testDetection"
Truthy(v) == v \in {"true", TestDetectionFunction}

\* A state value where a number is compared: null and false as 0, true as 1.
ToNumber(v) == IF v = "true" THEN 1 ELSE 0

\* testDetection(prev) as React calls it for an updater: testScreenX is the
\* previous state, testScreenY is undefined, and every comparison with
\* undefined is false.
testDetectionOfState(prev) ==
  \/ ToNumber(prev) < 0
  \/ ToNumber(prev) > getScreenInfo.availWidth

\* setTestDetectionFn(action), the setter of useState: an action that is a
\* function is called with the previous state and its result is stored.
setTestDetectionFn(prev, action) ==
  IF action = TestDetectionFunction
    THEN IF testDetectionOfState(prev) THEN "true" ELSE "false"
    ELSE action

NoDetectionAlert == [shown |-> TRUE, message |-> "No detection"]

\* SuccessScreen handleTestDetection with numeric coordinates: the button
\* 'Test These Coordinates' is rendered on the success screen and disabled
\* while monitoring is off.  A stored value that is truthy and not a
\* function makes the call throw, which changes nothing either.
handleTestDetection(x, y) ==
  /\ EventLoopFree
  /\ currentStep = "success"
  /\ monitoringEnabled
  /\ IF Truthy(testDetectionFn) /\ testDetectionFn = TestDetectionFunction
       THEN IF testDetectionResult(x, y)
              THEN showMultiMonitorPopup(x, y, getScreenInfo.availWidth,
                                         getScreenInfo.availHeight)
              ELSE /\ popup' = NoDetectionAlert
                   /\ UNCHANGED lastAlertRef
       ELSE UNCHANGED <<lastAlertRef, popup>>
  /\ UNCHANGED <<currentMousePos, debounceTimerRef, timers>>
  /\ UNCHANGED <<ctlVars, envVars, labelVars>>

\* The user dismisses the alert.
DismissAlert ==
  /\ popup # NoPopup
  /\ popup' = NoPopup
  /\ UNCHANGED <<currentMousePos, debounceTimerRef, lastAlertRef, timers>>
  /\ UNCHANGED <<ctlVars, envVars, labelVars>>

\* Time passes to the next observed instant.
Tick ==
  /\ \E i \in Instants : i > now
  /\ now' = CHOOSE i \in Instants : i > now /\ \A j \in Instants : j > now => i <= j
  /\ UNCHANGED screen
  /\ UNCHANGED <<ctlVars, watchVars, labelVars>>

\* The host reports other display bounds.
ScreenChange(sc) ==
  /\ sc # screen
  /\ screen' = sc
  /\ UNCHANGED now
  /\ UNCHANGED <<ctlVars, watchVars, labelVars>>

(***************************************************************************)
(* Initial state.                                                          *)
(***************************************************************************)
InitCtl ==
  /\ currentStep = "instructions"
  /\ stream = NoStream
  /\ showRetryModal = FALSE
  /\ errorMessage = ""
  /\ attempts = 0
  /\ monitoringEnabled = TRUE
  /\ videoSrc = NoStream
  /\ pending = 0
  /\ streams = [s \in StreamIds |-> NoStreamObject]

InitLabelIdle ==
  /\ label = ""
  /\ trackLabel = ""
  /\ isValidScreenShare = FALSE
  /\ validated = FALSE

InitWatch ==
  /\ currentMousePos = [screenX |-> 0, screenY |-> 0]
  /\ debounceTimerRef = NoTimer
  /\ lastAlertRef = 0
  /\ timers = {}
  /\ popup = NoPopup
  /\ now = StartInstant

InitScreen == screen \in Screens

\* The effect that registers the test callback has run: it runs after the
\* first render, before any event is handled.
InitTestCallback ==
  testDetectionFn = setTestDetectionFn(Null, TestDetectionFunction)

Init == InitCtl /\ InitWatch /\ InitScreen /\ InitTestCallback /\ InitLabelIdle

(***************************************************************************)
(* validateScreenShare up to the await: called by Start and by Retry.      *)
(***************************************************************************)
CanRequest == attempts < MaxAttempts /\ pending < MaxPending

\* Mutant: the attempt counter is not incremented.
RequestCapture_NoCount ==
  /\ currentStep' = "requesting"
  /\ attempts' = attempts
  /\ pending' = pending + 1
  /\ videoSrc' = NoStream

RequestCapture ==
  /\ currentStep' = "requesting"
  /\ attempts' = attempts + 1
  /\ pending' = pending + 1
  /\ videoSrc' = NoStream

\* InstructionScreen onStart.  A button is operable whenever the JSX renders
\* it: the instruction screen is rendered when currentStep is
\* 'instructions', the RetryModal when showRetryModal is set.  The modal is
\* a styled overlay, not a focus trap, so a button rendered under it still
\* takes keyboard activation.
Start ==
  /\ EventLoopFree
  /\ currentStep = "instructions"
  /\ CanRequest
  /\ RequestCapture
  /\ UNCHANGED <<stream, showRetryModal, errorMessage, monitoringEnabled, streams>>
  /\ Commit

\* Mutant: retry keeps the previous message and prompt.
retryScreenShare_KeepMessage ==
  /\ EventLoopFree
  /\ showRetryModal
  /\ CanRequest
  /\ RequestCapture
  /\ UNCHANGED <<showRetryModal, errorMessage>>
  /\ UNCHANGED <<stream, monitoringEnabled, streams>>
  /\ Commit

\* RetryModal onRetry
retryScreenShare ==
  /\ EventLoopFree
  /\ showRetryModal
  /\ CanRequest
  /\ showRetryModal' = FALSE
  /\ errorMessage' = ""
  /\ RequestCapture
  /\ UNCHANGED <<stream, monitoringEnabled, streams>>
  /\ Commit

\* RetryModal onCancel: () => setCurrentStep('instructions')
onCancel ==
  /\ EventLoopFree
  /\ showRetryModal
  /\ currentStep' = "instructions"
  /\ videoSrc' = NoStream
  /\ UNCHANGED <<stream, showRetryModal, errorMessage, attempts,
                 monitoringEnabled, pending, streams>>
  /\ Commit

\* SuccessScreen onRestart
restartProcess ==
  /\ EventLoopFree
  /\ currentStep = "success"
  /\ IF stream # NoStream
       THEN /\ streams' = [streams EXCEPT ![stream] = Collect(StopTracks(@))]
            /\ stream' = NoStream
       ELSE UNCHANGED <<streams, stream>>
  /\ currentStep' = "instructions"
  /\ showRetryModal' = FALSE
  /\ errorMessage' = ""
  /\ attempts' = 0
  /\ videoSrc' = NoStream
  /\ UNCHANGED <<monitoringEnabled, pending>>
  /\ Commit

\* SuccessScreen onToggleMonitoring
toggleMonitoring ==
  /\ EventLoopFree
  /\ currentStep = "success"
  /\ monitoringEnabled' = ~monitoringEnabled
  /\ UNCHANGED <<currentStep, stream, showRetryModal, errorMessage, attempts,
                 videoSrc, pending, streams>>
  /\ Commit

(***************************************************************************)
(* validateScreenShare after the await.                                    *)
(***************************************************************************)
\* Mutant: a rejected stream is reported without stopping its tracks.
RejectStream_NoStop(s, l) ==
  /\ streams' = [streams EXCEPT ![s] = Collect(NewStreamObject(l))]
  /\ errorMessage' = errorMessageOf[l]
  /\ showRetryModal' = TRUE
  /\ currentStep' = "error"
  /\ videoSrc' = NoStream
  /\ UNCHANGED stream

\* if (!isValidScreenShare) { stop tracks; report; return }
RejectStream(s, l) ==
  /\ streams' = [streams EXCEPT ![s] = Collect(StopTracks(NewStreamObject(l)))]
  /\ errorMessage' = errorMessageOf[l]
  /\ showRetryModal' = TRUE
  /\ currentStep' = "error"
  /\ videoSrc' = NoStream
  /\ UNCHANGED stream

\* setStream(mediaStream); setCurrentStep('success'); attach to the video
\* element if videoRef.current is set, i.e. if the success screen is mounted
\* while the handler runs.
AcceptStream(s, l) ==
  /\ streams' = [streams EXCEPT ![s] = NewStreamObject(l)]
  /\ stream' = s
  /\ currentStep' = "success"
  /\ videoSrc' = IF currentStep = "success" THEN s ELSE NoStream
  /\ UNCHANGED <<errorMessage, showRetryModal>>

\* The promise of getDisplayMedia resolves with stream s labelled l.
ResolveStream(s, l) ==
  /\ EventLoopFree
  /\ pending > 0
  /\ FreeIds # {}
  /\ s = NewStreamId
  /\ pending' = pending - 1
  /\ IF isValidScreenShareOf[l]
       THEN AcceptStream(s, l)
       ELSE RejectStream(s, l)
  /\ UNCHANGED <<attempts, monitoringEnabled>>
  /\ Commit

\* The promise of getDisplayMedia rejects with an error named name.
\* Mutant: a failed request does not show the retry prompt.
FailRequest_NoModal(name) ==
  /\ EventLoopFree
  /\ pending > 0
  /\ pending' = pending - 1
  /\ errorMessage' = catchMessage(name)
  /\ currentStep' = "error"
  /\ videoSrc' = NoStream
  /\ UNCHANGED <<stream, showRetryModal, attempts, monitoringEnabled, streams>>
  /\ Commit

FailRequest(name) ==
  /\ EventLoopFree
  /\ pending > 0
  /\ pending' = pending - 1
  /\ errorMessage' = catchMessage(name)
  /\ showRetryModal' = TRUE
  /\ currentStep' = "error"
  /\ videoSrc' = NoStream
  /\ UNCHANGED <<stream, attempts, monitoringEnabled, streams>>
  /\ Commit

Next ==
  \/ Start
  \/ retryScreenShare
  \/ onCancel
  \/ restartProcess
  \/ toggleMonitoring
  \/ \E s \in StreamIds, l \in Labels : ResolveStream(s, l)
  \/ \E name \in ErrorNames : FailRequest(name)
  \/ \E pt \in Points : handleMouseMove(pt.screenX, pt.screenY)
  \/ \E t \in timers : TimerFire(t)
  \/ \E pt \in Points : handleTestDetection(pt.screenX, pt.screenY)
  \/ DismissAlert
  \/ Tick
  \/ \E sc \in Screens : ScreenChange(sc)

Spec == Init /\ [][Next]_vars

(***************************************************************************)
(* Hook specification: the page together with a caller of the function     *)
(* testDetection that useMouseTracker returns.                             *)
(***************************************************************************)
NextHook ==
  \/ Start
  \/ retryScreenShare
  \/ onCancel
  \/ restartProcess
  \/ toggleMonitoring
  \/ \E s \in StreamIds, l \in Labels : ResolveStream(s, l)
  \/ \E name \in ErrorNames : FailRequest(name)
  \/ \E pt \in Points : handleMouseMove(pt.screenX, pt.screenY)
  \/ \E t \in timers : TimerFire(t)
  \/ \E pt \in Points : handleTestDetection(pt.screenX, pt.screenY)
  \/ \E pt \in Points : testDetection(pt.screenX, pt.screenY)
  \/ DismissAlert
  \/ Tick
  \/ \E sc \in Screens : ScreenChange(sc)

SpecHook == Init /\ [][NextHook]_vars

(***************************************************************************)
(* Call specification: the hook specification under display bounds that    *)
(* stay as the page found them.                                            *)
(***************************************************************************)
NextCall ==
  \/ Start
  \/ retryScreenShare
  \/ onCancel
  \/ restartProcess
  \/ toggleMonitoring
  \/ \E s \in StreamIds, l \in Labels : ResolveStream(s, l)
  \/ \E name \in ErrorNames : FailRequest(name)
  \/ \E pt \in Points : handleMouseMove(pt.screenX, pt.screenY)
  \/ \E t \in timers : TimerFire(t)
  \/ \E pt \in Points : handleTestDetection(pt.screenX, pt.screenY)
  \/ \E pt \in Points : testDetection(pt.screenX, pt.screenY)
  \/ DismissAlert
  \/ Tick

SpecCall == Init /\ [][NextCall]_vars

(***************************************************************************)
(* Boundary specification: testDetection applied to every coordinate of a  *)
(* grid around the valid range, under every valid range of the grid.       *)
(***************************************************************************)
Coords == -2..3

GridScreens == [availWidth : 1..2, availHeight : 1..2]

NextTest ==
  \/ \E x \in Coords, y \in Coords : testDetection(x, y)
  \/ DismissAlert
  \/ Tick
  \/ \E sc \in GridScreens : ScreenChange(sc)

SpecTest == Init /\ [][NextTest]_vars

(***************************************************************************)
(* Label specification: lines 36-42 and 49 of validateScreenShare applied   *)
(* to every probed label.                                                  *)
(***************************************************************************)
InitLabel ==
  /\ InitCtl
  /\ InitWatch
  /\ screen = CHOOSE sc \in Screens : TRUE
  /\ InitTestCallback
  /\ label \in ProbeLabels
  /\ trackLabel = ""
  /\ isValidScreenShare = FALSE
  /\ validated = FALSE

Validate ==
  /\ ~validated
  /\ validated' = TRUE
  /\ trackLabel' = TrackLabelOf(label)
  /\ isValidScreenShare' = validateTrackLabel(TrackLabelOf(label))
  /\ errorMessage' = IF validateTrackLabel(TrackLabelOf(label))
                       THEN errorMessage
                       ELSE getErrorMessage(TrackLabelOf(label))
  /\ UNCHANGED label
  /\ UNCHANGED <<currentStep, stream, showRetryModal, attempts,
                 monitoringEnabled, testDetectionFn, videoSrc, pending, streams>>
  /\ UNCHANGED <<watchVars, envVars>>

NextLabel == Validate

SpecLabel == InitLabel /\ [][NextLabel]_vars

(***************************************************************************)
(* Properties.                                                             *)
(***************************************************************************)
Steps == {"instructions", "requesting", "success", "error"}

ClaimDisallowed ==
  {"tab", "window", "chrome tab", "firefox tab", "safari tab",
   "application window", "browser window"}

ClaimAllowed ==
  {"screen", "monitor", "desktop", "entire screen", "full screen"}

HasDisallowed(l) == \E p \in ClaimDisallowed : includes(l, p)
HasAllowed(l) == \E p \in ClaimAllowed : includes(l, p)

\* Classification rejects the label of the stream object s.
RejectedStream(s) == ~isValidScreenShareOf[streams[s].label]

\* The claimed outcome for each delivered label: accepted when the
\* lower-cased label has an allowed and no disallowed substring.
ClaimAccepts ==
  [l \in Labels |->
     HasAllowed(toLowerCase(l)) /\ ~HasDisallowed(toLowerCase(l))]

\* C1: a stream whose lower-cased label classification rejects never has a
\* live track in a state the controller shows, in particular not in Error
\* with the message and the retry prompt set: the tracks are stopped in the
\* handler before it reports.
C1_RejectedStreamStopped ==
  \A s \in StreamIds : IsLive(s) => ~RejectedStream(s)

\* C1 witness: a rejected descriptor was reported and no capture is running.
C1_Witness ==
  /\ currentStep = "error"
  /\ showRetryModal
  /\ errorMessage = MsgTab
  /\ \A s \in StreamIds : ~IsLive(s)

\* C2: a label containing a disallowed substring is rejected, whether or not
\* it also contains an allowed substring.
C2_DisallowedWins ==
  (validated /\ HasDisallowed(trackLabel)) => ~isValidScreenShare

\* C2 witness: a label with both a disallowed and an allowed substring.
C2_Witness ==
  /\ validated
  /\ includes(trackLabel, "tab")
  /\ includes(trackLabel, "screen")
  /\ ~isValidScreenShare

\* C3: a label containing neither a disallowed nor an allowed substring,
\* the empty label included, is rejected.
C3_FailClosed ==
  (validated /\ ~HasDisallowed(trackLabel) /\ ~HasAllowed(trackLabel))
    => ~isValidScreenShare

\* C3 witness: an unrecognised, non-empty label was rejected.
C3_Witness ==
  /\ validated
  /\ trackLabel = "camera"
  /\ ~isValidScreenShare

\* C4: a resolution of the request moves the controller to Success exactly
\* when the lower-cased label has an allowed and no disallowed substring, so
\* labels that differ only in letter case get the same outcome; the
\* accepted stream is retained and live.
C4_AcceptedToSuccess ==
  [][pending' < pending =>
       \A s \in StreamIds, l \in Labels :
         ResolveStream(s, l) =>
           IF ClaimAccepts[l]
             THEN currentStep' = "success" /\ stream' = s /\ IsLive(s)'
             ELSE currentStep' # "success"]_vars

\* C4 witness: the mixed-case label "Screen 1" was accepted from Requesting.
C4_Witness ==
  /\ currentStep = "success"
  /\ stream # NoStream
  /\ streams[stream].label = "Screen 1"
  /\ attempts = 1

\* C5 (as claimed): currentStep is one of the four states and changes only
\* along Idle->Requesting, Requesting->Success, Requesting->Error,
\* Error->Requesting, Error->Idle, Success->Idle.
ListedEdges ==
  {<<"instructions", "requesting">>, <<"requesting", "success">>,
   <<"requesting", "error">>, <<"error", "requesting">>,
   <<"error", "instructions">>, <<"success", "instructions">>}

C5_ListedEdgesOnly ==
  [][/\ currentStep \in Steps
     /\ currentStep' \in Steps
     /\ currentStep' # currentStep => <<currentStep, currentStep'>> \in ListedEdges]_vars

\* C6 (as claimed): every transition Requesting -> Success leaves the
\* returned stream retained and live and the boundary watcher active.
C6_SuccessActivatesWatcher ==
  [][(currentStep = "requesting" /\ currentStep' = "success") =>
       /\ stream' # NoStream
       /\ streams'[stream'].live = TrackIds
       /\ isActive']_vars

\* C7: restart from Success stops every track of the retained stream, drops
\* the handle, resets attempts to 0, clears the message and moves to Idle.
C7_RestartResets ==
  [][(restartProcess /\ currentStep = "success") =>
       /\ stream # NoStream => streams'[stream].live = {}
       /\ stream' = NoStream
       /\ attempts' = 0
       /\ errorMessage' = ""
       /\ currentStep' = "instructions"]_vars

\* C7 witness: Idle after a restart (monitoring is toggled only in Success,
\* and only restart resets attempts), nothing retained, nothing live.
C7_Witness ==
  /\ currentStep = "instructions"
  /\ ~monitoringEnabled
  /\ attempts = 0
  /\ stream = NoStream
  /\ \A s \in StreamIds : ~IsLive(s)

\* C8 (as claimed): cancel from Error moves to Idle, clears the recorded
\* message and leaves attempts unchanged.
C8_CancelClearsMessage ==
  [][(onCancel /\ currentStep = "error") =>
       /\ currentStep' = "instructions"
       /\ errorMessage' = ""
       /\ attempts' = attempts]_vars

\* C9: retry from Error moves to Requesting, issues exactly one request,
\* increments attempts by one, clears the message and hides the prompt, all
\* before the new request resolves.
C9_RetryReissues ==
  [][(retryScreenShare /\ currentStep = "error") =>
       /\ currentStep' = "requesting"
       /\ pending' = pending + 1
       /\ attempts' = attempts + 1
       /\ errorMessage' = ""
       /\ ~showRetryModal']_vars

\* C9 witness: the second request is outstanding after a retry, with the
\* message cleared and the prompt hidden.
C9_Witness ==
  /\ currentStep = "requesting"
  /\ attempts = 2
  /\ pending = 1
  /\ errorMessage = ""
  /\ ~showRetryModal

\* C10: attempts is 0 initially, grows by one with every capture request
\* issued, is reset to 0 by restart and is changed by nothing else; so it
\* counts the requests issued since the last restart or process start.
C10_AttemptsCountRequests ==
  /\ attempts = 0
  /\ [][/\ pending' = pending + 1 => attempts' = attempts + 1
        /\ restartProcess => attempts' = 0
        /\ (pending' # pending + 1 /\ ~restartProcess) => attempts' = attempts]_vars

\* C10 witness: two requests issued since process start, both counted.
C10_Witness ==
  /\ attempts = 2
  /\ pending = 2
  /\ currentStep = "requesting"

\* The message the claim selects for each failure category.
ClaimFailureMessage(name) ==
  CASE name = "NotAllowedError" -> MsgDenied
    [] name = "NotSupportedError" -> MsgUnsupported
    [] OTHER -> MsgOther

\* C11: every failed capture request, whatever its category, ends in Error
\* with the non-empty message of that category and the retry prompt shown;
\* it neither stays in Requesting nor reaches Success.
C11_FailureToError ==
  [][pending' < pending =>
       \A name \in ErrorNames :
         FailRequest(name) =>
           /\ currentStep' = "error"
           /\ errorMessage' = ClaimFailureMessage(name)
           /\ errorMessage' # ""
           /\ showRetryModal']_vars

\* C11 witness: an unsupported-capability failure was reported.
C11_Witness ==
  /\ currentStep = "error"
  /\ errorMessage = MsgUnsupported
  /\ showRetryModal
  /\ pending = 0

\* A notification fires in this step.
NotificationFires == popup = NoPopup /\ popup' # NoPopup

\* C12: a notification fires only when at least 3000 ms have passed since the
\* last fired one, from the deferred check and from testDetection alike, and
\* it sets the last-fired time to the current time; the last-fired time
\* changes in no other step, so an attempt within 3000 ms fires nothing and
\* leaves it alone, and stopping or restarting does not reset it.
C12_Throttle ==
  [][/\ NotificationFires =>
          /\ now - lastAlertRef >= ThrottleMs
          /\ lastAlertRef' = now
     /\ lastAlertRef' # lastAlertRef => NotificationFires
     /\ now - lastAlertRef < ThrottleMs =>
          /\ ~NotificationFires
          /\ lastAlertRef' = lastAlertRef]_vars

\* C12 witness: a notification fires at the last instant, after the flow was
\* restarted and while an earlier notification is impossible to be closer
\* than 3000 ms.
C12_Witness ==
  /\ popup # NoPopup
  /\ lastAlertRef = 6300
  /\ now = 6300
  /\ attempts >= 2

\* The claim's boundary predicate for a coordinate and a valid range.
ClaimOutOfBounds(x, y, availWidth, availHeight) ==
  x < 0 \/ x > availWidth \/ y < 0 \/ y > availHeight

\* C13: at most one deferred check is pending, and it belongs to the last
\* pointer sample; an out-of-bounds sample of the active watcher leaves
\* exactly one check, due 300 ms later, an in-bounds sample leaves none; and
\* a notification fires from the pointer path only by the pending check of
\* the last sample running at or after its due time.
C13_SingleDeferredCheck ==
  /\ [](/\ Cardinality(timers) <= 1
        /\ \A t \in timers :
             /\ t.id = debounceTimerRef
             /\ t.screenX = currentMousePos.screenX
             /\ t.screenY = currentMousePos.screenY
             /\ t.due <= now + DebounceMs)
  /\ [][/\ \A pt \in Points :
             (isActive /\ handleMouseMove(pt.screenX, pt.screenY)) =>
               timers' =
                 IF ClaimOutOfBounds(pt.screenX, pt.screenY,
                                     screen.availWidth, screen.availHeight)
                   THEN {[id |-> debounceTimerRef', screenX |-> pt.screenX,
                          screenY |-> pt.screenY, due |-> now + DebounceMs]}
                   ELSE {}
        /\ NotificationFires =>
             \E t \in timers :
               /\ timers' = {}
               /\ now >= t.due
               /\ popup'.screenX = currentMousePos.screenX
               /\ popup'.screenY = currentMousePos.screenY]_vars

\* C13 witness: a check set by a sample at the second instant is the only one
\* pending.
C13_Witness ==
  /\ isActive
  /\ now = 3300
  /\ \E t \in timers : t.due = now + DebounceMs /\ timers = {t}
  /\ lastAlertRef = 0

\* C14: while the watcher is inactive no deferred check is pending and no
\* notification is on display: deactivation cancels the pending check.
C14_DeactivationCancels ==
  ~isActive => (timers = {} /\ popup = NoPopup)

\* C14 witness: the watcher is inactive, and a deferred check that was set
\* and never ran (no notification has ever fired) is no longer pending.
C14_Witness ==
  /\ ~isActive
  /\ debounceTimerRef # NoTimer
  /\ lastAlertRef = 0
  /\ timers = {}

\* C15: with the event loop free and the throttle open, testDetection fires
\* for exactly the coordinates (x, y) with x < 0, x > availWidth, y < 0 or
\* y > availHeight of the bounds of that moment, and it returns true for
\* exactly those; both limits are inclusive.
C15_OutOfBoundsPredicate ==
  \A x \in Coords, y \in Coords :
    LET claimed == ClaimOutOfBounds(x, y, screen.availWidth, screen.availHeight)
    IN  /\ isOutOfBounds(x, y) = claimed
        /\ testDetectionResult(x, y) = claimed
        /\ (0 <= x /\ x <= screen.availWidth /\ 0 <= y /\ y <= screen.availHeight)
             => ~isOutOfBounds(x, y)
        /\ (EventLoopFree /\ now - lastAlertRef >= ThrottleMs) =>
             (ENABLED <<testDetection(x, y)>>_vars) = claimed

\* C15 witness: a notification for a coordinate just right of the valid
\* range whose y lies on the lower limit, after the bounds have changed.
C15_Witness ==
  /\ popup # NoPopup
  /\ popup.availWidth = 1
  /\ popup.availHeight = 2
  /\ popup.screenX = popup.availWidth + 1
  /\ popup.screenY = popup.availHeight

\* C16: testDetection(x, y) with (x, y) out of bounds returns true and
\* attempts a notification at once: with the throttle open the notification
\* for (x, y) fires in the same step, and in no case is a deferred check set
\* or the last-known pointer sample touched; with (x, y) in bounds it returns
\* false and changes nothing (a call that changes anything is one with
\* (x, y) out of bounds and the throttle open).
C16_TestDetection ==
  /\ [](\A pt \in Points :
          LET claimed == ClaimOutOfBounds(pt.screenX, pt.screenY,
                                          screen.availWidth, screen.availHeight)
          IN  /\ testDetectionResult(pt.screenX, pt.screenY) = claimed
              /\ (claimed /\ EventLoopFree /\ now - lastAlertRef >= ThrottleMs)
                   => ENABLED <<testDetection(pt.screenX, pt.screenY)>>_vars)
  /\ [][(popup = NoPopup /\ now' = now /\ currentStep' = currentStep) =>
        \A pt \in Points :
          testDetection(pt.screenX, pt.screenY) =>
            /\ ClaimOutOfBounds(pt.screenX, pt.screenY,
                                screen.availWidth, screen.availHeight)
            /\ now - lastAlertRef >= ThrottleMs
            /\ NotificationFires
            /\ popup'.screenX = pt.screenX
            /\ popup'.screenY = pt.screenY
            /\ lastAlertRef' = now
            /\ UNCHANGED <<currentMousePos, debounceTimerRef, timers>>]_vars

\* C16 witness: a notification fired by testDetection while the watcher is
\* inactive and has never been active.
C16_Witness ==
  /\ popup # NoPopup
  /\ currentStep = "instructions"
  /\ attempts = 0
  /\ lastAlertRef = now

\* The edges the claim reports for a coordinate and a valid range.
ClaimEdges(x, y, availWidth, availHeight) ==
  {e \in {"left edge"} : x < 0}
    \cup {e \in {"right edge"} : x > availWidth}
    \cup {e \in {"top edge"} : y < 0}
    \cup {e \in {"bottom edge"} : y > availHeight}

\* C18: a notification that fires reports each edge its coordinate violates
\* in the valid range of that moment, once, and no other edge; it carries that
\* valid range and the coordinate of the deferred check or of the
\* testDetection call that made it.
C18_ReportedEdges ==
  [][NotificationFires =>
       /\ {popup'.reason[i] : i \in 1..Len(popup'.reason)} =
            ClaimEdges(popup'.screenX, popup'.screenY,
                       screen.availWidth, screen.availHeight)
       /\ Len(popup'.reason) =
            Cardinality(ClaimEdges(popup'.screenX, popup'.screenY,
                                   screen.availWidth, screen.availHeight))
       /\ popup'.availWidth = screen.availWidth
       /\ popup'.availHeight = screen.availHeight
       /\ \/ \E t \in timers \ timers' :
               popup'.screenX = t.screenX /\ popup'.screenY = t.screenY
          \/ /\ timers' = timers
             /\ \E pt \in Points :
                  /\ testDetection(pt.screenX, pt.screenY)
                  /\ popup'.screenX = pt.screenX
                  /\ popup'.screenY = pt.screenY]_vars

\* C18 witness: a notification of the deferred check that reports two edges
\* together.
C18_Witness ==
  /\ popup # NoPopup
  /\ popup.reason = <<"left edge", "bottom edge">>
  /\ isActive
  /\ debounceTimerRef # NoTimer

\* C17: a pointer sample is taken in every state in which the event loop is
\* free, whatever the controller's step and whether or not the watcher is
\* active, and it sets currentMousePos to its coordinate; with the watcher
\* inactive it changes nothing else.
C17_SampleAlwaysRecorded ==
  /\ [](EventLoopFree =>
          \A pt \in Points :
            pt # currentMousePos =>
              ENABLED <<handleMouseMove(pt.screenX, pt.screenY)>>_vars)
  /\ [][(popup = NoPopup /\ now' = now /\ currentStep' = currentStep) =>
        \A pt \in Points :
          handleMouseMove(pt.screenX, pt.screenY) =>
            /\ currentMousePos' = pt
            /\ ~isActive =>
                 /\ UNCHANGED <<debounceTimerRef, lastAlertRef, timers, popup>>
                 /\ UNCHANGED ctlVars]_vars

\* C17 witness: an out-of-bounds sample taken in step 'error' is the
\* last-known sample, and no deferred check has been set for it.
C17_Witness ==
  /\ currentStep = "error"
  /\ currentMousePos = [screenX |-> -1, screenY |-> 3]
  /\ debounceTimerRef = NoTimer
  /\ timers = {}

\* The message the claim selects for a rejected label.
ClaimRejectionMessage(l) ==
  CASE includes(l, "tab") -> MsgTab
    [] includes(l, "window") /\ ~includes(l, "tab") -> MsgWindow
    [] OTHER -> MsgGeneric

\* C19: the message recorded for a rejected label is the tab message when
\* the label contains 'tab', with or without 'window', the window message
\* when it contains 'window' and not 'tab', and the generic message
\* otherwise.
C19_RejectionMessage ==
  (validated /\ ~isValidScreenShare) =>
    /\ errorMessage = ClaimRejectionMessage(trackLabel)
    /\ errorMessage \in {MsgTab, MsgWindow, MsgGeneric}
    /\ trackLabel = "" => errorMessage = MsgGeneric

\* C19 witness: a rejected label that contains 'window' before 'tab' has the
\* tab message.
C19_Witness ==
  /\ validated
  /\ ~isValidScreenShare
  /\ trackLabel = "window tab"
  /\ errorMessage = MsgTab

\* A step of the user on the page, or the outcome of a pending request.
ControllerStep ==
  \/ Start
  \/ retryScreenShare
  \/ onCancel
  \/ restartProcess
  \/ toggleMonitoring
  \/ \E s \in StreamIds, l \in Labels : ResolveStream(s, l)
  \/ \E name \in ErrorNames : FailRequest(name)
  \/ DismissAlert

\* C20: no state is terminal.  Below the caps of the model a step of the
\* user or the outcome of the pending request is enabled in every state; in
\* step 'error' the retry prompt is up, Cancel is enabled and leads to
\* 'instructions', Retry is enabled and leads to 'requesting'; and in step
\* 'requesting' a request is pending whose outcome can be 'success'.
C20_NoTerminalState ==
  /\ CanRequest => ENABLED <<ControllerStep>>_vars
  /\ currentStep = "error" =>
       /\ showRetryModal
       /\ ENABLED (onCancel /\ currentStep' = "instructions")
       /\ CanRequest => ENABLED (retryScreenShare /\ currentStep' = "requesting")
  /\ currentStep = "requesting" =>
       /\ pending > 0
       /\ FreeIds # {} =>
            ENABLED (/\ \E s \in StreamIds, l \in Labels : ResolveStream(s, l)
                     /\ currentStep' = "success")

\* C20 witness: step 'error' after a second request has failed, with nothing
\* pending.
C20_Witness ==
  /\ currentStep = "error"
  /\ showRetryModal
  /\ attempts = 2
  /\ pending = 0
  /\ errorMessage = MsgOther

\* C21 (as claimed): whenever the controller is in Success, the preview video
\* element has the retained stream as its source.
C21_PreviewAttached ==
  currentStep = "success" => (stream # NoStream /\ videoSrc = stream)

\* C22 (as claimed): in Success with monitoring enabled the value stored as
\* testDetectionFn is the hook's testDetection, and pressing 'Test These
\* Coordinates' shows the boundary notification for out-of-bounds
\* coordinates (when the throttle is open) and the 'No detection' message for
\* in-bounds coordinates.
C22_TestButtonCallsTest ==
  (isActive /\ EventLoopFree) =>
    /\ testDetectionFn = TestDetectionFunction
    /\ \A pt \in Points :
         IF ClaimOutOfBounds(pt.screenX, pt.screenY,
                             screen.availWidth, screen.availHeight)
           THEN now - lastAlertRef >= ThrottleMs =>
                  ENABLED (/\ handleTestDetection(pt.screenX, pt.screenY)
                           /\ popup' # NoPopup
                           /\ popup' # NoDetectionAlert)
           ELSE ENABLED (/\ handleTestDetection(pt.screenX, pt.screenY)
                         /\ popup' = NoDetectionAlert)

\* C23 (as claimed): the retry prompt is displayed exactly when the
\* controller is in Error.
C23_PromptIffError ==
  showRetryModal <=> currentStep = "error"

\* C24 (as claimed): outside Success the controller retains no stream and no
\* stream handed out is live; in Success exactly the retained stream is live.
C24_LiveOnlyInSuccess ==
  IF currentStep = "success"
    THEN /\ stream # NoStream
         /\ {s \in StreamIds : IsLive(s)} = {stream}
    ELSE /\ stream = NoStream
         /\ {s \in StreamIds : IsLive(s)} = {}

\* C25 (as claimed): at most one capture request is outstanding; an outcome
\* of a request is processed only in Requesting; and the controller leaves
\* Requesting only by the outcome of the pending request.
C25_SingleRequest ==
  /\ [](pending <= 1)
  /\ [][/\ pending' < pending => currentStep = "requesting"
        /\ (currentStep = "requesting" /\ currentStep' # "requesting")
             => pending' < pending]_vars

\* C26: a deferred check that is pending carries the last-known pointer
\* sample, and the notification it fires reports that sample (the event loop
\* takes no sample while the notification is on display).
C26_ReportsLatestSample ==
  /\ \A t \in timers :
       /\ t.screenX = currentMousePos.screenX
       /\ t.screenY = currentMousePos.screenY
  /\ popup # NoPopup =>
       /\ popup.screenX = currentMousePos.screenX
       /\ popup.screenY = currentMousePos.screenY

\* C26 witness: the deferred check of a sample taken at the first instant has
\* fired at the second and reports that sample.
C26_Witness ==
  /\ popup # NoPopup
  /\ lastAlertRef = 3300
  /\ now = 3300
  /\ popup.screenX = 2
  /\ popup.screenY = 1
  /\ currentMousePos = [screenX |-> 2, screenY |-> 1]

\* C27 (as claimed): every fired notification reports at least one crossed
\* edge.
C27_SomeEdgeReported ==
  popup # NoPopup => Len(popup.reason) >= 1

====
